---------------------------- MODULE Spec2Model ----------------------------
(***************************************************************************)
(* A model of libraft's leader-side bookkeeping: Progress (src/progress.rs) *)
(* and RaftLog (src/raft_log.rs).                                          *)
(*                                                                         *)
(* A Progress and a RaftLog are values (records); every method of the      *)
(* source is an operator of the same name from the value before the call   *)
(* to the value after it, its statements applied in the source's order.    *)
(* An action is one call of a public method by the owner of the value.     *)
(*                                                                         *)
(* Indices are u64 in the source.  The model keeps them far below 2^64, so *)
(* `n + 1` never wraps; entry indices are 1-based, so                      *)
(* `ents[0].get_index() - 1` never underflows.                             *)
(***************************************************************************)
EXTENDS Naturals, Sequences, FiniteSets

\* Largest index handed to a Progress method.
MaxIndex == 4
\* Largest index of an entry handed to RaftLog::append.
MaxLogIndex == 4
\* Most entries in one append.
MaxLen == 2
\* Largest term of an entry.
MaxTerm == 2
\* Largest index the Storage holds when the RaftLog is built.
MaxStored == 2
MaxSize == 2

VARIABLES
    progress,   \* the Progress of one follower
    op,         \* the last call made on it: its name, argument, result, and
                \* the ProgressState it was made in
    prev,       \* the call before it
    raft_log,   \* the RaftLog of the node
    aborted,    \* a call on the RaftLog panicked: the node is gone
    log_op      \* the last call made on the RaftLog

vars == <<progress, op, prev, raft_log, aborted, log_op>>

Max(a, b) == IF a > b THEN a ELSE b

-----------------------------------------------------------------------------
(* progress.rs *)

ProgressState == {"Probe", "Replicate", "Snapshot"}

\* #[derive(Default)] Inflights: every field zero, the buffer empty.
DefaultInflights == [start |-> 0, count |-> 0, size |-> 0, buffer |-> <<>>]

\* #[derive(Default)] Progress: every integer 0, every flag false, the state
\* ProgressState::default() = Probe.
DefaultProgress ==
    [matched          |-> 0,
     next             |-> 0,
     state            |-> "Probe",
     paused           |-> FALSE,
     pending_snapshot |-> 0,
     recent_active    |-> FALSE,
     ins              |-> DefaultInflights,
     is_lenarner      |-> FALSE]

\* Inflights::reset
reset(ins) == [ins EXCEPT !.start = 0, !.count = 0]

\* full that holds only past the capacity.
full_past_size(ins) == ins.count > ins.size

\* Inflights::full
full(ins) == ins.count = ins.size

\* An Inflights of capacity size: a struct literal over the pub fields.
Inflights(size) ==
    [start |-> 0, count |-> 0, size |-> size, buffer |-> [k \in 1..size |-> 0]]

\* The recorded indices, oldest first: buffer[start], buffer[start + 1], ...
\* wrapping at size (the Vec is indexed from 0, the sequence from 1).
Recorded(ins) ==
    [k \in 1..ins.count |-> ins.buffer[((ins.start + k - 1) % ins.size) + 1]]

\* Inflights::add: rejected if full, else records inflight at the logical
\* tail.  The pair of the Inflights and whether the index was accepted.
add(ins, inflight) ==
    IF full(ins) THEN [ins |-> ins, added |-> FALSE]
    ELSE LET next == ins.start + ins.count
             idx == IF next >= ins.size THEN next - ins.size ELSE next
         IN  [ins   |-> [ins EXCEPT !.buffer[idx + 1] = inflight,
                                    !.count = ins.count + 1],
              added |-> TRUE]

\* The Inflights without its n oldest recorded indices.
FreeOldest(ins, n) ==
    IF n = 0 THEN ins
    ELSE [ins EXCEPT !.count = ins.count - n,
                     !.start = (ins.start + n) % ins.size]

\* Inflights::free_to: removes from the head every recorded index <= to.
free_to(ins, to) ==
    LET rec == Recorded(ins)
        n == CHOOSE k \in 0..ins.count :
                 /\ \A j \in 1..k : rec[j] <= to
                 /\ k = ins.count \/ rec[k + 1] > to
    IN  FreeOldest(ins, n)

\* Inflights::free_first_one: removes the oldest recorded index, if any.
free_first_one(ins) == FreeOldest(ins, IF ins.count = 0 THEN 0 ELSE 1)

\* reset_state that leaves pending_snapshot as it is.
reset_state_keep_pending(p, s) ==
    LET p1 == [p  EXCEPT !.paused = FALSE]
        p3 == [p1 EXCEPT !.state = s]
    IN  [p3 EXCEPT !.ins = reset(p3.ins)]

\* reset_state that leaves the Inflights as it is.
reset_state_keep_ins(p, s) ==
    LET p1 == [p  EXCEPT !.paused = FALSE]
        p2 == [p1 EXCEPT !.pending_snapshot = 0]
    IN  [p2 EXCEPT !.state = s]

reset_state(p, s) ==
    LET p1 == [p  EXCEPT !.paused = FALSE]
        p2 == [p1 EXCEPT !.pending_snapshot = 0]
        p3 == [p2 EXCEPT !.state = s]
    IN  [p3 EXCEPT !.ins = reset(p3.ins)]

\* become_probe probing from pending_snapshot + 1 without the max.
become_probe_no_max(p) ==
    IF p.state = "Snapshot"
    THEN LET pending_snapshot == p.pending_snapshot
             q == reset_state(p, "Probe")
         IN  [q EXCEPT !.next = pending_snapshot + 1]
    ELSE LET q == reset_state(p, "Probe")
         IN  [q EXCEPT !.next = q.matched + 1]

\* become_probe probing from matched, one too low.
become_probe_from_matched(p) ==
    IF p.state = "Snapshot"
    THEN LET pending_snapshot == p.pending_snapshot
             q == reset_state(p, "Probe")
         IN  [q EXCEPT !.next = Max(q.matched, pending_snapshot + 1)]
    ELSE LET q == reset_state(p, "Probe")
         IN  [q EXCEPT !.next = q.matched]

\* become_probe that resets next only when it comes from Snapshot.
become_probe_keep_next(p) ==
    IF p.state = "Snapshot"
    THEN LET pending_snapshot == p.pending_snapshot
             q == reset_state(p, "Probe")
         IN  [q EXCEPT !.next = Max(q.matched + 1, pending_snapshot + 1)]
    ELSE reset_state(p, "Probe")

become_probe(p) ==
    IF p.state = "Snapshot"
    THEN LET pending_snapshot == p.pending_snapshot
             q == reset_state(p, "Probe")
         IN  [q EXCEPT !.next = Max(q.matched + 1, pending_snapshot + 1)]
    ELSE LET q == reset_state(p, "Probe")
         IN  [q EXCEPT !.next = q.matched + 1]

\* become_replicate that leaves next where it was.
become_replicate_keep_next(p) == reset_state(p, "Replicate")

become_replicate(p) ==
    LET q == reset_state(p, "Replicate")
    IN  [q EXCEPT !.next = q.matched + 1]

become_snapshot(p, index) ==
    LET q == reset_state(p, "Snapshot")
    IN  [q EXCEPT !.pending_snapshot = index]

resume(p) == [p EXCEPT !.paused = FALSE]

pause(p) == [p EXCEPT !.paused = TRUE]

\* maybe_update that takes every n, a lower one too, as the new matched.
maybe_update_any(p, n) ==
    LET updated == p.matched # n
        p1 == IF updated THEN resume([p EXCEPT !.matched = n]) ELSE p
        p2 == IF p1.next < n + 1 THEN [p1 EXCEPT !.next = n + 1] ELSE p1
    IN  [progress |-> p2, updated |-> updated]

\* maybe_update that sets next to n + 1 whatever next was.
maybe_update_set_next(p, n) ==
    LET updated == p.matched < n
        p1 == IF updated THEN resume([p EXCEPT !.matched = n]) ELSE p
        p2 == [p1 EXCEPT !.next = n + 1]
    IN  [progress |-> p2, updated |-> updated]

\* maybe_update that pauses where it should resume.
maybe_update_pauses(p, n) ==
    LET updated == p.matched < n
        p1 == IF updated THEN pause([p EXCEPT !.matched = n]) ELSE p
        p2 == IF p1.next < n + 1 THEN [p1 EXCEPT !.next = n + 1] ELSE p1
    IN  [progress |-> p2, updated |-> updated]

\* maybe_update returns a flag and changes the Progress: the pair of both.
maybe_update(p, n) ==
    LET updated == p.matched < n
        p1 == IF updated THEN resume([p EXCEPT !.matched = n]) ELSE p
        p2 == IF p1.next < n + 1 THEN [p1 EXCEPT !.next = n + 1] ELSE p1
    IN  [progress |-> p2, updated |-> updated]

\* optimistic_update that takes n as matched too.
optimistic_update_matched(p, n) == [p EXCEPT !.next = n + 1, !.matched = n]

optimistic_update(p, n) == [p EXCEPT !.next = n + 1]

\* is_paused that consults the paused flag in Replicate too.
is_paused_by_flag(p) ==
    CASE p.state = "Probe"     -> p.paused
      [] p.state = "Replicate" -> p.paused
      [] p.state = "Snapshot"  -> TRUE

is_paused(p) ==
    CASE p.state = "Probe"     -> p.paused
      [] p.state = "Replicate" -> full(p.ins)
      [] p.state = "Snapshot"  -> TRUE

snapshot_failure(p) == [p EXCEPT !.pending_snapshot = 0]

need_snapshot_failure(p) ==
    p.state = "Snapshot" /\ p.matched >= p.pending_snapshot

-----------------------------------------------------------------------------
(* The calls the owner of a Progress makes. *)

Call(name, arg, ret) ==
    [name |-> name, arg |-> arg, ret |-> ret, from |-> progress.state]

\* A call on the Progress leaves the RaftLog alone.
Made(name, arg, ret) ==
    /\ op' = Call(name, arg, ret)
    /\ prev' = op
    /\ UNCHANGED <<raft_log, aborted, log_op>>

NoCall == [name |-> "new", arg |-> 0, ret |-> FALSE, from |-> "Probe"]

ProgressInit ==
    /\ progress = DefaultProgress
    /\ op = NoCall
    /\ prev = NoCall

ResetState ==
    \E s \in ProgressState :
        /\ progress' = reset_state(progress, s)
        /\ Made("reset_state", 0, FALSE)

BecomeProbe ==
    /\ progress' = become_probe(progress)
    /\ Made("become_probe", 0, FALSE)

BecomeReplicate ==
    /\ progress' = become_replicate(progress)
    /\ Made("become_replicate", 0, FALSE)

BecomeSnapshot ==
    \E index \in 0..MaxIndex :
        /\ progress' = become_snapshot(progress, index)
        /\ Made("become_snapshot", index, FALSE)

MaybeUpdate ==
    \E n \in 0..MaxIndex :
        LET r == maybe_update(progress, n)
        IN  /\ progress' = r.progress
            /\ Made("maybe_update", n, r.updated)

OptimisticUpdate ==
    \E n \in 0..MaxIndex :
        /\ progress' = optimistic_update(progress, n)
        /\ Made("optimistic_update", n, FALSE)

IsPaused ==
    /\ progress' = progress
    /\ Made("is_paused", 0, is_paused(progress))

SnapshotFailure ==
    /\ progress' = snapshot_failure(progress)
    /\ Made("snapshot_failure", 0, FALSE)

NeedSnapshotFailure ==
    /\ progress' = progress
    /\ Made("need_snapshot_failure", 0, need_snapshot_failure(progress))

-----------------------------------------------------------------------------
(* The collaborators of RaftLog: Storage (storage.rs) and Unstable          *)
(* (log_unstable.rs), modelled from their documented contracts.            *)

\* Option<T>: None is <<>>, Some(v) is <<v>>.
None == <<>>
Some(v) == <<v>>

\* A Storage answering first_index() = Ok(first) and last_index() = Ok(last).
\* It holds the entries first..last behind a dummy entry at first - 1.
Storages ==
    {[first |-> f, last |-> l] : f \in 1..MaxStored, l \in 0..MaxStored}
        \ {st \in [first : 1..MaxStored, last : 0..MaxStored] :
                st.last + 1 < st.first}

storage_first_index(st) == st.first

storage_last_index(st) == st.last

\* Result<u64>.
Ok(t) == [kind |-> "Ok", value |-> t]
Err(e) == [kind |-> "Err", value |-> e]

\* Storage::term(i).  An index before the dummy entry is Compacted, one after
\* the last entry Unavailable; index 0 has term 0, the stored entries and
\* the dummy entry left by a compaction have term 1.  failed: the lookup
\* fails in another way (an error that is neither of the two).
storage_term(st, i, failed) ==
    IF failed THEN Err("Other")
    ELSE IF i + 1 < st.first THEN Err("Compacted")
    ELSE IF i > st.last THEN Err("Unavailable")
    ELSE IF i = 0 THEN Ok(0)
    ELSE Ok(1)

NoSnapshot == [some |-> FALSE, index |-> 0, term |-> 0]

\* Unstable::new(offset, tag): no entries, no snapshot.
unstable_new(offset) ==
    [offset |-> offset, entries |-> <<>>, snapshot |-> NoSnapshot]

maybe_last_index(u) ==
    IF Len(u.entries) > 0 THEN Some(u.entries[Len(u.entries)].index)
    ELSE IF u.snapshot.some THEN Some(u.snapshot.index)
    ELSE None

maybe_first_index(u) ==
    IF Len(u.entries) > 0 THEN Some(u.offset)
    ELSE IF u.snapshot.some THEN Some(u.snapshot.index + 1)
    ELSE None

maybe_term(u, i) ==
    IF i >= u.offset /\ i < u.offset + Len(u.entries)
    THEN Some(u.entries[i - u.offset + 1].term)
    ELSE IF u.snapshot.some /\ i = u.snapshot.index THEN Some(u.snapshot.term)
    ELSE None

\* ents is not empty and ents[1].index <= u.offset + Len(u.entries).
truncate_and_append(u, ents) ==
    LET after == ents[1].index
    IN  IF after = u.offset + Len(u.entries)
        THEN [u EXCEPT !.entries = u.entries \o ents]
        ELSE IF after < u.offset
        THEN [u EXCEPT !.offset = after, !.entries = ents]
        ELSE [u EXCEPT !.entries = SubSeq(u.entries, 1, after - u.offset) \o ents]

-----------------------------------------------------------------------------
(* raft_log.rs *)

new(storage) ==
    LET first_index == storage_first_index(storage)
        last_index == storage_last_index(storage)
    IN  [storage   |-> storage,
         committed |-> first_index - 1,
         applied   |-> first_index - 1,
         unstable  |-> unstable_new(last_index + 1)]

last_index(l) ==
    IF maybe_last_index(l.unstable) # None
    THEN maybe_last_index(l.unstable)[1]
    ELSE storage_last_index(l.storage)

first_index(l) ==
    IF maybe_first_index(l.unstable) # None
    THEN maybe_first_index(l.unstable)[1]
    ELSE storage_first_index(l.storage)

\* A call that may panic: the RaftLog after it, and whether it panicked.
Returned(l) == [log |-> l, panic |-> FALSE]
Panicked(l) == [log |-> l, panic |-> TRUE]

\* applied_to without the check against committed.
applied_to_past_committed(l, i) ==
    IF i = 0 THEN Returned(l)
    ELSE IF i < l.applied THEN Panicked(l)
    ELSE Returned([l EXCEPT !.applied = i])

\* applied_to without the early return for 0.
applied_to_no_zero(l, i) ==
    IF i > l.committed \/ i < l.applied THEN Panicked(l)
    ELSE Returned([l EXCEPT !.applied = i])

applied_to(l, i) ==
    IF i = 0 THEN Returned(l)
    ELSE IF i > l.committed \/ i < l.applied THEN Panicked(l)
    ELSE Returned([l EXCEPT !.applied = i])

\* append checking the entries against applied instead of committed.
append_after_applied(l, ents, storage_ok) ==
    IF ents = <<>>
    THEN IF maybe_last_index(l.unstable) = None /\ ~storage_ok
         THEN Panicked(l)
         ELSE Returned(l)
    ELSE LET after == ents[1].index - 1
         IN  IF after < l.applied THEN Panicked(l)
             ELSE Returned([l EXCEPT !.unstable =
                                truncate_and_append(l.unstable, ents)])

\* storage_ok: whether storage.last_index() answers Ok when last_index()
\* has to ask the Storage (it panics on Err).
append(l, ents, storage_ok) ==
    IF ents = <<>>
    THEN IF maybe_last_index(l.unstable) = None /\ ~storage_ok
         THEN Panicked(l)
         ELSE Returned(l)
    ELSE LET after == ents[1].index - 1
         IN  IF after < l.committed THEN Panicked(l)
             ELSE Returned([l EXCEPT !.unstable =
                                truncate_and_append(l.unstable, ents)])

\* term without the check against last_index().
term_no_upper(l, i, storage_failed) ==
    LET dummy_index == first_index(l) - 1
    IN  IF i < dummy_index
        THEN [ret |-> Ok(0), panic |-> FALSE]
        ELSE IF maybe_term(l.unstable, i) # None
        THEN [ret |-> Ok(maybe_term(l.unstable, i)[1]), panic |-> FALSE]
        ELSE LET r == storage_term(l.storage, i, storage_failed)
             IN  IF r.kind = "Ok" THEN [ret |-> r, panic |-> FALSE]
                 ELSE IF r.value \in {"Compacted", "Unavailable"}
                 THEN [ret |-> r, panic |-> FALSE]
                 ELSE [ret |-> r, panic |-> TRUE]

\* term returns a Result or panics: the pair of the result and the panic.
\* storage_failed: the Storage, when asked, fails with an unexpected error.
term(l, i, storage_failed) ==
    LET dummy_index == first_index(l) - 1
    IN  IF i < dummy_index \/ i > last_index(l)
        THEN [ret |-> Ok(0), panic |-> FALSE]
        ELSE IF maybe_term(l.unstable, i) # None
        THEN [ret |-> Ok(maybe_term(l.unstable, i)[1]), panic |-> FALSE]
        ELSE LET r == storage_term(l.storage, i, storage_failed)
             IN  IF r.kind = "Ok" THEN [ret |-> r, panic |-> FALSE]
                 ELSE IF r.value \in {"Compacted", "Unavailable"}
                 THEN [ret |-> r, panic |-> FALSE]
                 ELSE [ret |-> r, panic |-> TRUE]

\* must_check_out_of_bounds without the check for a compacted low.
must_check_no_compacted(l, low, hight) ==
    IF low > hight THEN "invalid"
    ELSE LET fi == first_index(l)
             hi == last_index(l) + 1
         IN  IF low < fi \/ hight > hi THEN "out of bound"
             ELSE "returned"

\* must_check_out_of_bounds returns () or panics: "returned", or the panic's
\* payload, "invalid" (low > hight), "Compacted" or "out of bound".
must_check_out_of_bounds(l, low, hight) ==
    IF low > hight THEN "invalid"
    ELSE LET fi == first_index(l)
         IN  IF low < fi THEN "Compacted"
             ELSE LET hi == last_index(l) + 1
                  IN  IF low < fi \/ hight > hi THEN "out of bound"
                      ELSE "returned"

-----------------------------------------------------------------------------
(* The calls the owner of a RaftLog makes. *)

\* len entries of one term, at the indices first, first + 1, ...
Entries(first, len, tm) ==
    [k \in 1..len |-> [index |-> first + k - 1, term |-> tm]]

LogCall(name, index, panic) == [name |-> name, index |-> index, panic |-> panic]

NoLogCall == LogCall("new", 0, FALSE)

LogInit ==
    /\ raft_log \in {new(st) : st \in Storages}
    /\ aborted = FALSE
    /\ log_op = NoLogCall

\* A panic ends the node with the RaftLog as the panicking call left it.
\* A call on the RaftLog leaves the Progress alone.
Outcome(r, name, index) ==
    /\ raft_log' = r.log
    /\ aborted' = r.panic
    /\ log_op' = LogCall(name, index, r.panic)
    /\ UNCHANGED <<progress, op, prev>>

\* append(&[]): index 0 stands for "no first entry".
AppendNothing ==
    /\ ~aborted
    /\ \E storage_ok \in BOOLEAN :
           Outcome(append(raft_log, <<>>, storage_ok), "append", 0)

\* append of entries that leave no gap after the last index.
AppendEntries ==
    /\ ~aborted
    /\ \E first \in 1..MaxLogIndex, len \in 1..MaxLen, tm \in 1..MaxTerm :
           /\ first + len - 1 <= MaxLogIndex
           /\ first <= last_index(raft_log) + 1
           /\ Outcome(append(raft_log, Entries(first, len, tm), TRUE),
                      "append", first)

AppliedTo ==
    /\ ~aborted
    /\ \E i \in 0..MaxLogIndex :
           Outcome(applied_to(raft_log, i), "applied_to", i)

\* The caller advances the commit index (`pub committed`), never past
\* last_index().
CommitTo ==
    /\ ~aborted
    /\ \E c \in 0..MaxLogIndex :
           /\ raft_log.committed < c
           /\ c <= last_index(raft_log)
           /\ Outcome(Returned([raft_log EXCEPT !.committed = c]), "commit", c)

\* A call that reads the RaftLog: its arguments and what came of it.
Query(name, index, hight, ret, panic) ==
    [name |-> name, index |-> index, hight |-> hight, ret |-> ret,
     panic |-> panic]

Asked(q) ==
    /\ raft_log' = raft_log
    /\ aborted' = q.panic
    /\ log_op' = q
    /\ UNCHANGED <<progress, op, prev>>

Term ==
    /\ ~aborted
    /\ \E i \in 0..MaxLogIndex + 1, storage_failed \in BOOLEAN :
           LET r == term(raft_log, i, storage_failed)
           IN  Asked(Query("term", i, 0, r.ret, r.panic))

MustCheckOutOfBounds ==
    /\ ~aborted
    /\ \E low \in 0..MaxLogIndex + 1, hight \in 0..MaxLogIndex + 2 :
           LET r == must_check_out_of_bounds(raft_log, low, hight)
           IN  Asked(Query("must_check_out_of_bounds", low, hight, r,
                           r # "returned"))

LogNext ==
    \/ AppendNothing
    \/ AppendEntries
    \/ AppliedTo
    \/ CommitTo

\* The RaftLog of a node that has just been built over an empty Storage.
LogParked ==
    /\ raft_log = new([first |-> 1, last |-> 0])
    /\ aborted = FALSE
    /\ log_op = NoLogCall

-----------------------------------------------------------------------------
Init == ProgressInit /\ LogParked

Next ==
    \/ ResetState
    \/ BecomeProbe
    \/ BecomeReplicate
    \/ BecomeSnapshot
    \/ MaybeUpdate
    \/ OptimisticUpdate
    \/ IsPaused
    \/ SnapshotFailure
    \/ NeedSnapshotFailure

\* Any sequence of calls on a Progress::default().
Spec == Init /\ [][Next]_vars

\* Any sequence of maybe_update calls on a Progress as a leader builds it:
\* the default value, or matched = 0 with next at its last index + 1.
UpdateInit ==
    /\ \E n \in 0..MaxIndex + 1 : progress = [DefaultProgress EXCEPT !.next = n]
    /\ op = NoCall
    /\ prev = NoCall
    /\ LogParked

UpdateSpec == UpdateInit /\ [][MaybeUpdate]_vars

\* A Progress built as a struct literal over its pub fields: in any state,
\* paused or not, over a window of any capacity up to MaxSize filled to any
\* count up to its capacity.
BuiltInit ==
    /\ \E s \in ProgressState, b \in BOOLEAN, size \in 0..MaxSize :
           \E count \in 0..size :
               progress = [DefaultProgress EXCEPT
                               !.state = s,
                               !.paused = b,
                               !.ins = [Inflights(size) EXCEPT !.count = count]]
    /\ op = NoCall
    /\ prev = NoCall
    /\ LogParked

\* Any sequence of calls on such a Progress.
BuiltSpec == BuiltInit /\ [][Next]_vars

Add ==
    \E inflight \in 1..MaxIndex :
        LET r == add(progress.ins, inflight)
        IN  /\ progress' = [progress EXCEPT !.ins = r.ins]
            /\ Made("add", inflight, r.added)

FreeTo ==
    \E to \in 0..MaxIndex :
        /\ progress' = [progress EXCEPT !.ins = free_to(progress.ins, to)]
        /\ Made("free_to", to, FALSE)

FreeFirstOne ==
    /\ progress' = [progress EXCEPT !.ins = free_first_one(progress.ins)]
    /\ Made("free_first_one", 0, FALSE)

Reset ==
    /\ progress' = [progress EXCEPT !.ins = reset(progress.ins)]
    /\ Made("reset", 0, FALSE)

InflightsInit ==
    /\ \E size \in 0..MaxSize :
           progress = [DefaultProgress EXCEPT !.ins = Inflights(size)]
    /\ op = NoCall
    /\ prev = NoCall
    /\ LogParked

InflightsNext ==
    \/ Add
    \/ FreeTo
    \/ FreeFirstOne
    \/ Reset

\* Any sequence of add, free_to, free_first_one and reset calls on the
\* Inflights of a Progress, of any capacity up to MaxSize.
InflightsSpec == InflightsInit /\ [][InflightsNext]_vars

\* Any sequence of append, term and must_check_out_of_bounds calls on a
\* RaftLog::new(storage, tag); term and must_check_out_of_bounds read neither
\* committed nor applied.
QueryNext ==
    \/ AppendNothing
    \/ AppendEntries
    \/ Term
    \/ MustCheckOutOfBounds

\* Any sequence of calls on a RaftLog::new(storage, tag).
LogSpecInit == LogInit /\ ProgressInit

LogSpec == LogSpecInit /\ [][LogNext]_vars

QuerySpec == LogSpecInit /\ [][QueryNext]_vars

-----------------------------------------------------------------------------
(* Properties of RaftLog, checked under LogSpec. *)

\* C1: in every state reached from RaftLog::new by append, applied_to and
\* commit advances, applied <= committed <= last_index().
C1_AppliedCommittedLast ==
    /\ raft_log.applied <= raft_log.committed
    /\ raft_log.committed <= last_index(raft_log)

\* Entries were appended over a non-empty Storage, committed and applied to
\* the last of them.
C1_Witness ==
    /\ ~aborted
    /\ log_op.name = "applied_to"
    /\ Len(raft_log.unstable.entries) > 0
    /\ raft_log.storage.last > 0
    /\ raft_log.applied = raft_log.committed
    /\ raft_log.committed = last_index(raft_log)

\* C2: in every such state, first_index() - 1 <= committed.
C2_FirstIndexCommitted ==
    first_index(raft_log) - 1 <= raft_log.committed

\* C9: append of entries whose first index - 1 is below committed panics and
\* leaves the RaftLog as it was.
C9_AppendBelowCommitted ==
    [][(/\ log_op'.name = "append"
        /\ log_op'.index # 0
        /\ log_op'.index - 1 < raft_log.committed)
       => (aborted' /\ raft_log' = raft_log)]_vars

\* An append over committed unstable entries was rejected.
C9_Witness ==
    /\ aborted
    /\ log_op.name = "append"
    /\ log_op.index # 0
    /\ log_op.index - 1 < raft_log.committed
    /\ Len(raft_log.unstable.entries) > 0
    /\ raft_log.applied < raft_log.committed

\* C10, as claimed: applied_to(i) panics, applied unchanged, for every i below
\* applied or above committed; otherwise applied becomes i.
C10_Original ==
    [][log_op'.name = "applied_to" =>
        LET i == log_op'.index
        IN  IF i < raft_log.applied \/ i > raft_log.committed
            THEN aborted' /\ raft_log'.applied = raft_log.applied
            ELSE ~aborted' /\ raft_log'.applied = i]_vars

\* C10, amended: applied_to(0) returns without a panic and leaves applied;
\* applied_to(i) panics, applied unchanged, for every other i below applied or
\* above committed; otherwise applied becomes i.
C10_AppliedTo ==
    [][log_op'.name = "applied_to" =>
        LET i == log_op'.index
        IN  IF i = 0
            THEN ~aborted' /\ raft_log' = raft_log
            ELSE IF i < raft_log.applied \/ i > raft_log.committed
            THEN aborted' /\ raft_log' = raft_log
            ELSE ~aborted' /\ raft_log' = [raft_log EXCEPT !.applied = i]]_vars

\* applied_to(0) returned on a RaftLog that had applied entries.
C10_Witness ==
    /\ ~aborted
    /\ log_op.name = "applied_to"
    /\ log_op.index = 0
    /\ raft_log.applied >= raft_log.storage.first
    /\ raft_log.applied < raft_log.committed

-----------------------------------------------------------------------------
(* Properties of Progress, checked under Spec (C4 under UpdateSpec). *)

WellFormed(p) == p.matched < p.next /\ p.next >= 1

\* C3, as claimed: after every become_probe, become_replicate,
\* become_snapshot, maybe_update, optimistic_update and snapshot_failure,
\* matched < next and next >= 1.
C3_Original ==
    op.name \in {"become_probe", "become_replicate", "become_snapshot",
                 "maybe_update", "optimistic_update", "snapshot_failure"}
        => WellFormed(progress)

\* C3, amended: matched < next and next >= 1 hold after every become_probe,
\* every become_replicate and every maybe_update(n) with n >= matched; once
\* they hold they hold after every call but an optimistic_update(n) with
\* n < matched.
C3_MatchedBelowNext ==
    [][/\ (\/ op'.name \in {"become_probe", "become_replicate"}
           \/ op'.name = "maybe_update" /\ op'.arg >= progress.matched)
          => WellFormed(progress')
       /\ (/\ WellFormed(progress)
           /\ ~(op'.name = "optimistic_update" /\ op'.arg < progress.matched))
          => WellFormed(progress')]_vars

\* A follower was acknowledged, then streamed to, then sent a snapshot.
C3_Witness ==
    /\ op.name = "become_snapshot"
    /\ prev.name = "optimistic_update"
    /\ progress.matched > 0
    /\ progress.next > progress.matched + 1

\* C4: over any sequence of maybe_update calls matched never decreases and
\* next >= matched + 1 after every call.
C4_MaybeUpdateMonotone ==
    [][/\ progress'.matched >= progress.matched
       /\ progress'.next >= progress'.matched + 1]_vars

\* A maybe_update with a lower argument followed one with a higher.
C4_Witness ==
    /\ op.name = "maybe_update"
    /\ prev.name = "maybe_update"
    /\ op.arg < prev.arg
    /\ ~op.ret
    /\ progress.matched = prev.arg

C6_SnapshotFailureNoChange ==
    [][(/\ prev.name = "become_snapshot"
        /\ op.name = "snapshot_failure"
        /\ progress.state = "Snapshot"
        /\ WellFormed(progress)
        /\ op'.name = "become_probe")
       => (/\ progress'.pending_snapshot = 0
           /\ progress'.state = "Probe"
           /\ progress'.matched = progress.matched
           /\ progress'.next = progress.next)]_vars

\* C7: in Probe, maybe_update(index) with index > matched and then
\* become_replicate give Replicate with matched = index, next = matched + 1.
C7_ProbeAckReplicate ==
    [][(/\ op.name = "maybe_update"
        /\ op.from = "Probe"
        /\ op.ret
        /\ op'.name = "become_replicate")
       => (/\ progress'.state = "Replicate"
           /\ progress'.matched = op.arg
           /\ progress'.next = progress'.matched + 1)]_vars

\* An acknowledgment in Probe moved matched and the follower to Replicate.
C7_Witness ==
    /\ op.name = "become_replicate"
    /\ op.from = "Probe"
    /\ prev.name = "maybe_update"
    /\ prev.from = "Probe"
    /\ prev.ret
    /\ progress.state = "Replicate"
    /\ progress.matched = prev.arg

\* C8: become_probe in Replicate gives Probe with next = matched + 1 and
\* matched unchanged, however far optimistic_update had moved next.
C8_ReplicateRejectProbe ==
    [][(/\ progress.state = "Replicate"
        /\ op'.name = "become_probe")
       => (/\ progress'.state = "Probe"
           /\ progress'.next = progress.matched + 1
           /\ progress'.matched = progress.matched)]_vars

\* A rejection right after optimistic_update had moved next past matched + 1.
C8_Witness ==
    /\ op.name = "become_probe"
    /\ op.from = "Replicate"
    /\ prev.name = "optimistic_update"
    /\ prev.from = "Replicate"
    /\ prev.arg > progress.matched
    /\ progress.matched > 0
    /\ progress.state = "Probe"

-----------------------------------------------------------------------------
(* Properties of RaftLog's reads, checked under QuerySpec. *)

\* C11: a storage-boundary condition, reported by the Storage during term(i)
\* or found by must_check_out_of_bounds(low, high) with low <= high and
\* low < first_index(), never aborts the node.
C11_BoundaryNeverAborts ==
    [][(\/ /\ log_op'.name = "term"
           /\ log_op'.ret \in {Err("Compacted"), Err("Unavailable")}
        \/ /\ log_op'.name = "must_check_out_of_bounds"
           /\ log_op'.index <= log_op'.hight
           /\ log_op'.index < first_index(raft_log))
       => ~aborted']_vars

C13_Original ==
    [][(/\ log_op'.name = "term"
        /\ log_op'.ret # Err("Other")
        /\ \/ log_op'.index + 1 <= first_index(raft_log)
           \/ log_op'.index > last_index(raft_log))
       => (log_op'.ret = Ok(0) /\ ~aborted')]_vars

\* C13, amended: term(i) returns 0 for every i outside
\* [first_index() - 1, last_index()]; for i = first_index() - 1 it returns
\* what Unstable or else the Storage holds for i, which is 0 when i = 0.
C13_TermOutOfRange ==
    [][log_op'.name = "term" =>
        LET i == log_op'.index
            r == log_op'.ret
        IN  /\ (i + 1 < first_index(raft_log) \/ i > last_index(raft_log))
               => (r = Ok(0) /\ ~aborted')
            /\ (i + 1 = first_index(raft_log) /\ r # Err("Other"))
               => /\ ~aborted'
                  /\ r = IF maybe_term(raft_log.unstable, i) # None
                         THEN Ok(maybe_term(raft_log.unstable, i)[1])
                         ELSE storage_term(raft_log.storage, i, FALSE)
                  /\ i = 0 => r = Ok(0)]_vars

\* term was asked for an index past the unstable entries.
C13_Witness ==
    /\ ~aborted
    /\ log_op.name = "term"
    /\ Len(raft_log.unstable.entries) > 0
    /\ log_op.index > last_index(raft_log)
    /\ log_op.ret = Ok(0)

-----------------------------------------------------------------------------
(* Properties of Inflights, checked under InflightsSpec. *)

\* C14: over any sequence of add, free_to, free_first_one and reset on an
\* Inflights of capacity size, count <= size in every state and the capacity
\* stays; an add on a full window (count = size) is rejected and leaves
\* start, count and buffer unchanged.
C14_InflightsBounded ==
    /\ [](progress.ins.count <= progress.ins.size)
    /\ [][/\ progress'.ins.size = progress.ins.size
          /\ (op'.name = "add" /\ progress.ins.count = progress.ins.size)
             => (~op'.ret /\ progress'.ins = progress.ins)]_vars

\* An add was rejected by a full window that has wrapped around its buffer.
C14_Witness ==
    /\ op.name = "add"
    /\ ~op.ret
    /\ prev.name = "add"
    /\ prev.ret
    /\ progress.ins.size = MaxSize
    /\ progress.ins.count = progress.ins.size
    /\ progress.ins.start > 0

-----------------------------------------------------------------------------
(* Properties of Progress over any window, checked under BuiltSpec. *)

\* C15: is_paused() returns true in Snapshot, in Probe exactly when the
\* paused flag is set, in Replicate exactly when the window is full
\* (count = size); it changes nothing.
C15_IsPaused ==
    [][op'.name = "is_paused" =>
        /\ progress' = progress
        /\ progress.state = "Snapshot" => op'.ret
        /\ progress.state = "Probe" => (op'.ret <=> progress.paused)
        /\ progress.state = "Replicate"
           => (op'.ret <=> progress.ins.count = progress.ins.size)]_vars

\* is_paused() answered false in Replicate though the paused flag is set.
C15_Witness ==
    /\ op.name = "is_paused"
    /\ progress.state = "Replicate"
    /\ progress.paused
    /\ progress.ins.count < progress.ins.size
    /\ ~op.ret

\* C16: become_probe, become_replicate and become_snapshot, from any state,
\* leave paused = false and the window empty (count = 0) and do not change
\* the window's capacity.
C16_BecomeResets ==
    [][op'.name \in {"become_probe", "become_replicate", "become_snapshot"} =>
        /\ ~progress'.paused
        /\ progress'.ins.count = 0
        /\ progress'.ins.size = progress.ins.size
        /\ Len(progress'.ins.buffer) = Len(progress.ins.buffer)]_vars

\* become_probe on a Progress that was in Replicate with a full window.
C16_Witness ==
    /\ op.name = "become_probe"
    /\ prev.name = "is_paused"
    /\ prev.from = "Replicate"
    /\ prev.ret
    /\ progress.ins.size > 0
    /\ progress.ins.count = 0
    /\ ~progress.paused

-----------------------------------------------------------------------------
(* Properties of Progress from Progress::default(), checked under Spec. *)

\* C17: maybe_update(n) returns true exactly when matched < n held before
\* the call, which is exactly when it changed matched; next afterwards is
\* the larger of next before the call and n + 1.
C17_MaybeUpdate ==
    [][op'.name = "maybe_update" =>
        /\ op'.ret <=> progress.matched < op'.arg
        /\ op'.ret <=> progress'.matched # progress.matched
        /\ progress'.next = Max(progress.next, op'.arg + 1)]_vars

\* A stale acknowledgment after a fresh one: matched and next both stayed.
C17_Witness ==
    /\ op.name = "maybe_update"
    /\ ~op.ret
    /\ prev.name = "maybe_update"
    /\ prev.ret
    /\ op.arg < prev.arg
    /\ progress.matched = prev.arg
    /\ progress.next > op.arg + 1

\* C18: only maybe_update changes matched, every other operation leaves it
\* as it is, and matched never decreases.
C18_MatchedMonotone ==
    [][/\ op'.name # "maybe_update" => progress'.matched = progress.matched
       /\ progress'.matched >= progress.matched]_vars

\* An operation other than maybe_update acted on a Progress whose matched
\* maybe_update had raised.
C18_Witness ==
    /\ op.name = "optimistic_update"
    /\ op.arg < progress.matched
    /\ prev.name = "maybe_update"
    /\ prev.ret
    /\ progress.matched = prev.arg

\* C19: a non-zero pending_snapshot implies state = Snapshot in every
\* reachable state, and become_probe or become_replicate from Snapshot
\* leaves pending_snapshot = 0.
C19_PendingSnapshot ==
    /\ [](progress.pending_snapshot # 0 => progress.state = "Snapshot")
    /\ [][(/\ op'.name \in {"become_probe", "become_replicate"}
           /\ progress.state = "Snapshot")
          => progress'.pending_snapshot = 0]_vars

\* become_probe left a Snapshot state that had a pending snapshot.
C19_Witness ==
    /\ op.name = "become_probe"
    /\ op.from = "Snapshot"
    /\ prev.name = "become_snapshot"
    /\ prev.arg > 0
    /\ progress.state = "Probe"
    /\ progress.pending_snapshot = 0

\* C20: from Progress::default() no sequence of operations sets paused,
\* so is_paused() is false in every reachable Probe state.
C20_NeverPaused ==
    /\ ~progress.paused
    /\ progress.state = "Probe" => ~is_paused(progress)

\* is_paused() answered false in Probe after an acknowledgment was taken.
C20_Witness ==
    /\ op.name = "is_paused"
    /\ op.from = "Probe"
    /\ ~op.ret
    /\ prev.name = "maybe_update"
    /\ prev.ret
    /\ progress.state = "Probe"

=============================================================================
